---- MODULE Spec2Model ----
(***************************************************************************)
(* Model of the BulkChange mutation of src/demo.py: the employee and leave *)
(* collections, the notification task queue, and the mutate handler with   *)
(* the three functions it calls.  One action is one whole request.         *)
(*                                                                         *)
(* Abstractions: leave amounts and balances are integers (the code uses    *)
(* floats); a generated company employee code is the number of its numeric *)
(* suffix, 0 standing for the empty string; timestamps are left out.       *)
(***************************************************************************)
EXTENDS Integers, Sequences, FiniteSets, TLC

VARIABLES
    emp,        \* EmployeeDetails collection: id -> document
    leave,      \* Leave collection: hrms_id -> master_leave_balance entries
    hist,       \* designation-grade history collection (inserted records)
    calls,      \* number of requests served
    req,        \* the last request: role, hrms_ids, general and leave input
    pre,        \* EmployeeDetails collection as it was before the last request
    preLeave,   \* Leave collection as it was before the last request
    log,        \* store calls and task enqueues of the last request, in order
    outcome,    \* how the last request ended
    errIds      \* ids carried by the CompanySwitched of the last request

vars == <<emp, leave, hist, calls, req, pre, preLeave, log, outcome, errIds>>

----------------------------------------------------------------------------
(* Bounds of the model                                                     *)

MaxIds == 2          \* longest hrms_ids list of a request
MaxPatchKeys == 3    \* most keys of a general_field_input
MaxCalls == 3        \* most requests of a sequence of requests

----------------------------------------------------------------------------
(* The store                                                               *)

\* Documents of the EmployeeDetails collection, and the order a query returns them in.
EmpIds == {"e1", "e2"}
StoreOrder == <<"e1", "e2">>

\* Values an element of hrms_ids can take: the empty string, two stored ids
\* and an id with no document.
IdUniverse == <<"", "e1", "e2", "e9">>

\* The hrms_ids lists of the requests: every multiset of at most MaxIds values,
\* as the list that holds them in the order of IdUniverse (the handler queries
\* by membership, takes the length, and keeps the order only in the snapshots).
IdLists ==
    UNION {{[n \in 1..len |-> IdUniverse[l[n]]] :
               l \in {m \in [1..len -> 1..Len(IdUniverse)] :
                         \A n \in 1..(len - 1) : m[n] <= m[n + 1]}} :
           len \in 0..MaxIds}

ANNUAL_LEAVE == "annual"

\* COC collection: designations with their parent grade group, grade groups
\* with their children.  D2 names a grade group that has no document.
CocDesignation == [D1 |-> [parent |-> "GG1"], D2 |-> [parent |-> "GG9"]]
CocGrade == [GG1 |-> [child |-> {"G1"}]]

PatchKeys == {"employee_type", "grade", "designation", "shift_type",
              "business_group", "direct_manager", "saral"}

PatchVals(k) ==
    CASE k = "employee_type" -> {"T1"}
      [] k = "grade" -> {"G1", "G2"}
      [] k = "designation" -> {"D1", "D2", "D9"}
      [] k = "shift_type" -> {"S1"}
      [] k = "business_group" -> {"", "B1"}
      [] k = "direct_manager" -> {"", "m1", "zz"}
      [] k = "saral" -> {"X"}

AllPatchVals == UNION {PatchVals(k) : k \in PatchKeys}

\* general_field_input: a sparse mapping; None and {} are the empty mapping.
Patches ==
    UNION {{p \in [K -> AllPatchVals] : \A k \in K : p[k] \in PatchVals(k)} :
           K \in {K \in SUBSET PatchKeys : Cardinality(K) <= MaxPatchKeys}}

NoPatch == [k \in {} |-> ""]

RoleSets == {{"Employee"}, {"PMO"}, {"Admin"}, {"Admin", "PMO"}}

----------------------------------------------------------------------------
(* Helpers                                                                 *)

\* ("k" in d) and d["k"]
HasTruthy(d, k) == k \in DOMAIN d /\ d[k] # ""

\* d.pop(k, None)
Pop(d, k) == [x \in (DOMAIN d) \ {k} |-> d[x]]

InIds(hrms_ids) == {hrms_ids[n] : n \in 1..Len(hrms_ids)}

\* EmployeeDetails.objects(_id__in=hrms_ids): the documents the queryset selects
Matched(hrms_ids) == EmpIds \cap InIds(hrms_ids)

\* queryset.update(__raw__={"$set": fields}): every selected document gets the fields
SetFields(e, tgt, fields) ==
    [i \in EmpIds |->
        IF i \in tgt
        THEN [f \in DOMAIN e[i] |-> IF f \in DOMAIN fields THEN fields[f] ELSE e[i][f]]
        ELSE e[i]]

\* bson ObjectId(s): accepts the strings that spell an id, raises InvalidId otherwise
ValidOid(s) == s \in {"m0", "m1"}
ObjectId(s) == [oid |-> s]

\* An entry of the log
Ev(op, tag, val, tgt) == [op |-> op, tag |-> tag, val |-> val, tgt |-> tgt]

----------------------------------------------------------------------------
(* Collaborators whose code is outside src/                                *)

\* employee.utils.get_highest_cds_employee_id(company): the highest generated
\* code assigned in that company, 0 when the company has none
get_highest_cds_employee_id(e, company) ==
    LET codes == {e[i].cds_code : i \in {j \in EmpIds : e[j].saral = company}} \cup {0}
    IN  CHOOSE c \in codes : \A d \in codes : d <= c

\* employee.utils.generate_cds_employee_id(current_high): the successor code
generate_cds_employee_id(current_high) == current_high + 1

\* .utils.insert_designation_grade_history_from_bulkchange(employees, input):
\* one history record per selected employee, holding the values it has now
insert_designation_grade_history_from_bulkchange(e, tgt, gfi) ==
    {[hrms_id |-> i,
      old_designation |-> e[i].designation, old_grade |-> e[i].grade,
      designation |-> gfi["designation"], grade |-> gfi["grade"]] : i \in tgt}

----------------------------------------------------------------------------
(* update_all_fields_for_bulk_change, statement by statement.  s is the     *)
(* function's running state: the collections, the log, the input mapping it *)
(* pops keys from, ret ("run" until it returns or raises) and the error     *)
(* list of the company loop.                                                *)

\* A statement runs only while the function has neither returned nor raised.
Running(s) == s.ret = "run"

\* lines 64-67
NotifyEmployeeType(hrms_ids, emp_details_list, s) ==
    IF hrms_ids # <<>> /\ HasTruthy(s.gfi, "employee_type")
    THEN [s EXCEPT !.log = Append(@, Ev("notify", "employee_type",
                                        s.gfi["employee_type"], emp_details_list))]
    ELSE s

\* lines 71-84: the designation exists, its parent grade group exists, and
\* the grade is one of the group's children
GradeExist(gfi) ==
    /\ gfi["designation"] \in DOMAIN CocDesignation
    /\ CocDesignation[gfi["designation"]].parent \in DOMAIN CocGrade
    /\ gfi["grade"] \in CocGrade[CocDesignation[gfi["designation"]].parent].child

\* Mutant of CheckCountAndNotify: the count is not compared
CheckCountAndNotify_NoCheck(hrms_ids, emp_details_list, result, s) ==
    [s EXCEPT !.log = @ \o
        <<Ev("notify", "designation", s.gfi["designation"], emp_details_list),
          Ev("notify", "grade", <<s.gfi["designation"], s.gfi["grade"]>>,
             emp_details_list)>>]

\* lines 92-100: the count check and the two notifications
CheckCountAndNotify(hrms_ids, emp_details_list, result, s) ==
    IF result # Len(hrms_ids)
    THEN [s EXCEPT !.ret = "False"]
    ELSE [s EXCEPT !.log = @ \o
            <<Ev("notify", "designation", s.gfi["designation"], emp_details_list),
              Ev("notify", "grade", <<s.gfi["designation"], s.gfi["grade"]>>,
                 emp_details_list)>>]

\* Mutant of GradeDesignationStep: the set-update is issued before the
\* history records are inserted
GradeDesignationStep_UpdateFirst(hrms_ids, emp_details_list, s) ==
    IF "grade" \in DOMAIN s.gfi /\ "designation" \in DOMAIN s.gfi /\ GradeExist(s.gfi)
    THEN LET tgt == Matched(hrms_ids)
             fields == [grade |-> s.gfi["grade"], designation |-> s.gfi["designation"]]
             rows == insert_designation_grade_history_from_bulkchange(
                         SetFields(s.emp, tgt, fields), tgt, s.gfi)
             s1 == [s EXCEPT !.hist = @ \cup rows,
                             !.log = @ \o <<Ev("update", "grade_designation", fields, tgt),
                                            Ev("insert_history", "designation_grade", rows, tgt)>>,
                             !.emp = SetFields(@, tgt, fields)]
         IN  CheckCountAndNotify(hrms_ids, emp_details_list, Cardinality(tgt), s1)
    ELSE s

\* lines 69-100.  The history records are built from the documents as they
\* are before the set-update; the update answers with the number of documents
\* its query selects.
GradeDesignationStep(hrms_ids, emp_details_list, s) ==
    IF "grade" \in DOMAIN s.gfi /\ "designation" \in DOMAIN s.gfi /\ GradeExist(s.gfi)
    THEN LET tgt == Matched(hrms_ids)
             rows == insert_designation_grade_history_from_bulkchange(s.emp, tgt, s.gfi)
             fields == [grade |-> s.gfi["grade"], designation |-> s.gfi["designation"]]
             s1 == [s EXCEPT !.hist = @ \cup rows,
                             !.log = @ \o <<Ev("insert_history", "designation_grade", rows, tgt),
                                            Ev("update", "grade_designation", fields, tgt)>>,
                             !.emp = SetFields(@, tgt, fields)]
         IN  CheckCountAndNotify(hrms_ids, emp_details_list, Cardinality(tgt), s1)
    ELSE s

\* lines 103-113
PopGradeDesignationAndNotify(hrms_ids, s) ==
    IF ~Running(s) THEN s ELSE
    LET g1 == Pop(Pop(s.gfi, "grade"), "designation")
        l1 == IF hrms_ids # <<>> /\ HasTruthy(g1, "shift_type")
              THEN Append(s.log, Ev("notify", "shift_type", g1["shift_type"], hrms_ids))
              ELSE s.log
        l2 == IF hrms_ids # <<>> /\ HasTruthy(g1, "business_group")
              THEN Append(l1, Ev("notify", "business_group", g1["business_group"], hrms_ids))
              ELSE l1
    IN  [s EXCEPT !.gfi = g1, !.log = l2]

\* lines 116-121
DirectManagerStep(hrms_ids, emp_details_list, s) ==
    IF ~Running(s) THEN s ELSE
    IF hrms_ids # <<>> /\ HasTruthy(s.gfi, "direct_manager")
    THEN IF ~ValidOid(s.gfi["direct_manager"])
         THEN [s EXCEPT !.ret = "InvalidId"]
         ELSE LET fields == [direct_manager |-> ObjectId(s.gfi["direct_manager"])]
              IN  [s EXCEPT !.emp = SetFields(@, Matched(hrms_ids), fields),
                            !.log = @ \o
                               <<Ev("update", "direct_manager", fields, Matched(hrms_ids)),
                                 Ev("notify", "direct_manager", s.gfi["direct_manager"],
                                    emp_details_list)>>,
                            !.gfi = Pop(@, "direct_manager")]
    ELSE [s EXCEPT !.gfi = Pop(@, "direct_manager")]

\* Mutant of CompanyLoopBody: current_high is not advanced
CompanyLoopBody_NoAdvance(i, saral, s) ==
    LET is_company_name_changed == s.emp[i].saral # saral
        new_high == generate_cds_employee_id(s.high)
        fields == [cds_code |-> new_high, saral |-> saral]
    IN  IF is_company_name_changed /\ s.emp[i].cds_code = 0
        THEN [s EXCEPT !.emp = SetFields(@, {i}, fields),
                       !.log = Append(@, Ev("update_one", "company", fields, {i}))]
        ELSE IF is_company_name_changed
        THEN [s EXCEPT !.errs = Append(@, i), !.ok = FALSE]
        ELSE s

\* Mutant of CompanyLoopBody: the code is not tested for being empty
CompanyLoopBody_NoEmptyCheck(i, saral, s) ==
    LET is_company_name_changed == s.emp[i].saral # saral
        new_high == generate_cds_employee_id(s.high)
        fields == [cds_code |-> new_high, saral |-> saral]
    IN  IF is_company_name_changed
        THEN [s EXCEPT !.high = new_high,
                       !.emp = SetFields(@, {i}, fields),
                       !.log = Append(@, Ev("update_one", "company", fields, {i}))]
        ELSE s

\* lines 129-138: one pass of the loop over the selected employees
CompanyLoopBody(i, saral, s) ==
    LET is_company_name_changed == s.emp[i].saral # saral
        new_high == generate_cds_employee_id(s.high)
        fields == [cds_code |-> new_high, saral |-> saral]
    IN  IF is_company_name_changed /\ s.emp[i].cds_code = 0
        THEN [s EXCEPT !.high = new_high,
                       !.emp = SetFields(@, {i}, fields),
                       !.log = Append(@, Ev("update_one", "company", fields, {i}))]
        ELSE IF is_company_name_changed
        THEN [s EXCEPT !.errs = Append(@, i), !.ok = FALSE]
        ELSE s

\* Mutant of CompanyLoop: the loop stops at the first failed employee
RECURSIVE CompanyLoop_Abort(_, _, _)
CompanyLoop_Abort(todo, saral, s) ==
    IF todo = <<>> \/ ~s.ok THEN s
    ELSE CompanyLoop_Abort(Tail(todo), saral, CompanyLoopBody(Head(todo), saral, s))

\* line 128: the loop over the selected employees, in the order of the query
RECURSIVE CompanyLoop(_, _, _)
CompanyLoop(todo, saral, s) ==
    IF todo = <<>> THEN s
    ELSE CompanyLoop(Tail(todo), saral, CompanyLoopBody(Head(todo), saral, s))

\* lines 123-139
CompanyStep(hrms_ids, s) ==
    IF ~Running(s) THEN s ELSE
    IF "saral" \in DOMAIN s.gfi
    THEN LET saral == s.gfi["saral"]
             current_high == get_highest_cds_employee_id(s.emp, saral)
             todo == SelectSeq(StoreOrder, LAMBDA i : i \in Matched(hrms_ids))
             s0 == [s EXCEPT !.high = current_high,
                             !.log = Append(@, Ev("fetch_high", saral, current_high, {}))]
         IN  [CompanyLoop(todo, saral, s0) EXCEPT !.gfi = Pop(@, "saral")]
    ELSE s

\* Mutant of GenericStep: the set-update is issued without the id filter
GenericStep_NoFilter(hrms_ids, s) ==
    IF ~Running(s) THEN s ELSE
    IF DOMAIN s.gfi # {}
    THEN [s EXCEPT !.emp = SetFields(@, EmpIds, s.gfi),
                   !.log = Append(@, Ev("update", "generic", s.gfi, EmpIds))]
    ELSE s

\* lines 141-142
GenericStep(hrms_ids, s) ==
    IF ~Running(s) THEN s ELSE
    IF DOMAIN s.gfi # {}
    THEN [s EXCEPT !.emp = SetFields(@, Matched(hrms_ids), s.gfi),
                   !.log = Append(@, Ev("update", "generic", s.gfi, Matched(hrms_ids)))]
    ELSE s

\* lines 144-146
ReturnOrRaise(s) ==
    IF ~Running(s) THEN s
    ELSE [s EXCEPT !.ret = IF s.ok THEN "True" ELSE "CompanySwitched"]

\* lines 61-146: the statements in their order
update_all_fields_for_bulk_change(hrms_ids, emp_details_list, s) ==
    ReturnOrRaise(
      GenericStep(hrms_ids,
        CompanyStep(hrms_ids,
          DirectManagerStep(hrms_ids, emp_details_list,
            PopGradeDesignationAndNotify(hrms_ids,
              GradeDesignationStep(hrms_ids, emp_details_list,
                NotifyEmployeeType(hrms_ids, emp_details_list, s)))))))

\* lines 151-155
PmoDirectManager(hrms_ids, emp_details_list, s) ==
    IF hrms_ids # <<>> /\ HasTruthy(s.gfi, "direct_manager")
    THEN IF ~ValidOid(s.gfi["direct_manager"])
         THEN [s EXCEPT !.ret = "InvalidId"]
         ELSE LET fields == [direct_manager |-> ObjectId(s.gfi["direct_manager"])]
              IN  [s EXCEPT !.emp = SetFields(@, Matched(hrms_ids), fields),
                            !.log = @ \o
                              <<Ev("update", "direct_manager", fields, Matched(hrms_ids)),
                                Ev("notify", "direct_manager", s.gfi["direct_manager"],
                                   emp_details_list)>>]
    ELSE s

\* Mutant of PmoBusinessGroup: the notification is enqueued before the update
PmoBusinessGroup_NotifyFirst(hrms_ids, s) ==
    IF ~Running(s) THEN s
    ELSE IF hrms_ids # <<>> /\ HasTruthy(s.gfi, "business_group")
    THEN LET fields == [business_group |-> s.gfi["business_group"]]
         IN  [s EXCEPT !.emp = SetFields(@, Matched(hrms_ids), fields),
                       !.log = @ \o
                          <<Ev("notify", "business_group", s.gfi["business_group"],
                               hrms_ids),
                            Ev("update", "business_group", fields, Matched(hrms_ids))>>,
                       !.ret = "None"]
    ELSE [s EXCEPT !.ret = "None"]

\* lines 157-161, and the return of None
PmoBusinessGroup(hrms_ids, s) ==
    IF ~Running(s) THEN s
    ELSE IF hrms_ids # <<>> /\ HasTruthy(s.gfi, "business_group")
    THEN LET fields == [business_group |-> s.gfi["business_group"]]
         IN  [s EXCEPT !.emp = SetFields(@, Matched(hrms_ids), fields),
                       !.log = @ \o
                          <<Ev("update", "business_group", fields, Matched(hrms_ids)),
                            Ev("notify", "business_group", s.gfi["business_group"],
                               hrms_ids)>>,
                       !.ret = "None"]
    ELSE [s EXCEPT !.ret = "None"]

\* lines 149-161
update_dm_and_buissness_group_of_the_user(hrms_ids, emp_details_list, s) ==
    PmoBusinessGroup(hrms_ids, PmoDirectManager(hrms_ids, emp_details_list, s))

----------------------------------------------------------------------------
(* Leave balance                                                           *)

\* leave_field_input: given is whether the argument is present; value is the
\* text of the amount: a number, text that is no number, or null.
Num(n) == [t |-> "num", n |-> n]
NotANumber == [t |-> "str", n |-> 0]
Null == [t |-> "null", n |-> 0]
NoLeave == [given |-> FALSE, operation |-> "", value |-> Null]

LeaveOperations == {"ADD_TO_EXISTING", "REMOVE_FROM_EXISTING", "REPLACE_ALL_WITH"}

LeaveInputs ==
    [given : {TRUE}, operation : LeaveOperations \cup {""},
     value : {Num(3), Num(10), NotANumber, Null}]

\* lines 204-226: float(value) raises TypeError on null (not caught here),
\* ValueError on text that is no number (caught: None); a missing operation
\* gives None
get_leave_input_value(lfi) ==
    IF lfi.value.t = "null" THEN [kind |-> "TypeError", n |-> 0]
    ELSE IF lfi.value.t = "str" THEN [kind |-> "None", n |-> 0]
    ELSE IF lfi.operation = "" THEN [kind |-> "None", n |-> 0]
    ELSE [kind |-> "value", n |-> lfi.value.n]

\* lines 352-355: Leave documents of the ids that hold an annual-leave entry
LeaveMatched(lv, hrms_ids) ==
    {i \in EmpIds \cap InIds(hrms_ids) :
        \E k \in 1..Len(lv[i]) : lv[i][k].leave_type = ANNUAL_LEAVE}

\* the positional operator $: the first entry the query's match selects
Positional(entries) ==
    CHOOSE k \in 1..Len(entries) :
        /\ entries[k].leave_type = ANNUAL_LEAVE
        /\ \A j \in 1..(k - 1) : entries[j].leave_type # ANNUAL_LEAVE

\* Mutant of IncAndPush: the history entry is not pushed
IncAndPush_NoPush(lv, tgt, amount, credit) ==
    [i \in EmpIds |->
        IF i \in tgt
        THEN [lv[i] EXCEPT ![Positional(lv[i])] =
                 [@ EXCEPT !.leave_balance = @ + amount]]
        ELSE lv[i]]

\* lines 166-180, 201: one update over all selected documents
IncAndPush(lv, tgt, amount, credit) ==
    [i \in EmpIds |->
        IF i \in tgt
        THEN [lv[i] EXCEPT ![Positional(lv[i])] =
                 [@ EXCEPT !.leave_balance = @ + amount,
                           !.history = Append(@, [credit |-> credit])]]
        ELSE lv[i]]

\* Mutant of ReplaceOne: leave_taken is left out of balance and credit
ReplaceOne_NoTaken(i, leave_input_value, s) ==
    LET e0 == s.leave[i][1]
        credit == leave_input_value - e0.leave_balance
        balance == leave_input_value
    IN  [s EXCEPT !.leave[i][1] = [@ EXCEPT !.leave_balance = balance,
                                            !.history = Append(@, [credit |-> credit])],
                  !.log = Append(@, Ev("leave_update_one", "REPLACE_ALL_WITH",
                                       [leave_balance |-> balance, credit |-> credit], {i}))]

\* Mutant of ReplaceOne: the credit of the history entry is the amount itself
ReplaceOne_CreditIsAmount(i, leave_input_value, s) ==
    LET e0 == s.leave[i][1]
        credit == leave_input_value
        balance == leave_input_value + e0.leave_taken
    IN  [s EXCEPT !.leave[i][1] = [@ EXCEPT !.leave_balance = balance,
                                            !.history = Append(@, [credit |-> credit])],
                  !.log = Append(@, Ev("leave_update_one", "REPLACE_ALL_WITH",
                                       [leave_balance |-> balance, credit |-> credit], {i}))]

\* lines 184-198: the update of one document; master_leave_balance[0] is entry 1
ReplaceOne(i, leave_input_value, s) ==
    LET e0 == s.leave[i][1]
        credit == leave_input_value - e0.leave_balance + e0.leave_taken
        balance == leave_input_value + e0.leave_taken
    IN  [s EXCEPT !.leave[i][1] = [@ EXCEPT !.leave_balance = balance,
                                            !.history = Append(@, [credit |-> credit])],
                  !.log = Append(@, Ev("leave_update_one", "REPLACE_ALL_WITH",
                                       [leave_balance |-> balance, credit |-> credit], {i}))]

\* line 183: the loop over the selected documents, in the order of the query
RECURSIVE ReplaceLoop(_, _, _)
ReplaceLoop(todo, leave_input_value, s) ==
    IF todo = <<>> THEN s
    ELSE ReplaceLoop(Tail(todo), leave_input_value,
                     ReplaceOne(Head(todo), leave_input_value, s))

\* lines 164-201; s holds the Leave collection and the log
update_leave_balance_of_the_user(operation, leave_input_value, tgt, s) ==
    IF operation = "REPLACE_ALL_WITH"
    THEN ReplaceLoop(SelectSeq(StoreOrder, LAMBDA i : i \in tgt), leave_input_value, s)
    ELSE LET amount == IF operation = "ADD_TO_EXISTING"
                       THEN leave_input_value ELSE -leave_input_value
         IN  [s EXCEPT !.leave = IncAndPush(@, tgt, amount, amount),
                       !.log = Append(@, Ev("leave_update", operation, amount, tgt))]

----------------------------------------------------------------------------
(* BulkChange.mutate                                                       *)

\* lines 315-326: the snapshot of one employee
emp_details(e, hrmsid) ==
    [hrms_id |-> hrmsid,
     prev_dm |-> e[hrmsid].direct_manager,
     old_designation |-> e[hrmsid].designation,
     old_grade |-> e[hrmsid].grade,
     saral |-> e[hrmsid].saral,
     old_emp_type |-> e[hrmsid].employee_type]

\* line 314: the ids the snapshot loop reads a document for
SnapshotIds(hrms_ids) == SelectSeq(hrms_ids, LAMBDA h : h # "")

\* line 316: [0] of an empty query result raises IndexError
SnapshotRaises(hrms_ids) ==
    \E n \in 1..Len(SnapshotIds(hrms_ids)) : SnapshotIds(hrms_ids)[n] \notin EmpIds

\* lines 312-326
EmpDetailsList(e, hrms_ids) ==
    [n \in 1..Len(SnapshotIds(hrms_ids)) |-> emp_details(e, SnapshotIds(hrms_ids)[n])]

\* Mutant of RoleGate: PMO is let into the function of Admin
RoleGate_PmoAsAdmin(user_role, hrms_ids, emp_details_list, s) ==
    IF "Admin" \in user_role \/ "PMO" \in user_role
    THEN update_all_fields_for_bulk_change(hrms_ids, emp_details_list, s)
    ELSE s

\* lines 330-340: the role decides which function runs
RoleGate(user_role, hrms_ids, emp_details_list, s) ==
    IF "Admin" \in user_role
    THEN update_all_fields_for_bulk_change(hrms_ids, emp_details_list, s)
    ELSE IF "PMO" \in user_role
    THEN update_dm_and_buissness_group_of_the_user(hrms_ids, emp_details_list, s)
    ELSE s

\* lines 352-360
LeaveStep(user_role, hrms_ids, lfi, leave_input_value, s) ==
    IF s.ret \in {"False", "CompanySwitched", "InvalidId"} THEN s ELSE
    IF lfi.given /\ ("Admin" \in user_role \/ "PMO" \in user_role)
    THEN update_leave_balance_of_the_user(lfi.operation, leave_input_value,
                                          LeaveMatched(s.leave, hrms_ids), s)
    ELSE s

\* Mutant of Answer: CompanySwitched is caught like any other exception
Answer_Swallow(ret) ==
    CASE ret = "TypeError" -> ret
      [] ret \in {"False", "InvalidId", "IndexError", "CompanySwitched"} -> "ok_false"
      [] OTHER -> "ok_true"

\* lines 362-369: what the handler answers for the way its body ended
Answer(ret) ==
    CASE ret \in {"CompanySwitched", "TypeError"} -> ret
      [] ret \in {"False", "InvalidId", "IndexError"} -> "ok_false"
      [] OTHER -> "ok_true"

\* The collections, the log, the answer and the ids of the CompanySwitched
\* error, as the handler leaves them
Done(s) ==
    [emp |-> s.emp, leave |-> s.leave, hist |-> s.hist, log |-> s.log,
     outcome |-> Answer(s.ret), errs |-> s.errs]

\* lines 287-360: the body of the try
Body(user_role, hrms_ids, lfi, leave_input_value, s) ==
    IF DOMAIN s.gfi # {} /\ SnapshotRaises(hrms_ids)
    THEN [s EXCEPT !.ret = "IndexError"]
    ELSE LeaveStep(user_role, hrms_ids, lfi, leave_input_value,
            IF DOMAIN s.gfi # {}
            THEN RoleGate(user_role, hrms_ids, EmpDetailsList(s.emp, hrms_ids), s)
            ELSE s)

\* lines 278-286: the checks made before the try
Precheck(hrms_ids, lfi, s) ==
    IF hrms_ids = <<>> THEN [s EXCEPT !.ret = "False"]
    ELSE IF lfi.given /\ get_leave_input_value(lfi).kind = "TypeError"
    THEN [s EXCEPT !.ret = "TypeError"]
    ELSE IF lfi.given /\ get_leave_input_value(lfi).kind = "None"
    THEN [s EXCEPT !.ret = "False"]
    ELSE s

\* lines 258-369
mutate(e, lv, h, user_role, hrms_ids, gfi, lfi) ==
    LET s0 == [emp |-> e, leave |-> lv, hist |-> h, log |-> <<>>, gfi |-> gfi,
               ret |-> "run", errs |-> <<>>, ok |-> TRUE, high |-> 0]
    IN  IF Running(Precheck(hrms_ids, lfi, s0))
        THEN Done(Body(user_role, hrms_ids, lfi, get_leave_input_value(lfi).n, s0))
        ELSE Done(Precheck(hrms_ids, lfi, s0))

----------------------------------------------------------------------------
(* Initial states and actions                                              *)

Employee(saral, cds_code) ==
    [designation |-> "D0", grade |-> "G0", employee_type |-> "T0", shift_type |-> "S0",
     business_group |-> "B0", direct_manager |-> ObjectId("m0"),
     saral |-> saral, cds_code |-> cds_code]

Entry(leave_type, leave_balance, leave_taken) ==
    [leave_type |-> leave_type, leave_balance |-> leave_balance,
     leave_taken |-> leave_taken, history |-> <<>>]

\* The stores a request is served from.  Employees of company A without or
\* with a generated code, or already in company X; e2's annual-leave entry is
\* its only entry, its second entry, or missing.
Leave1 == [e1 |-> <<Entry(ANNUAL_LEAVE, 5, 2)>>, e2 |-> <<Entry(ANNUAL_LEAVE, 8, 1)>>]
Leave2 == [Leave1 EXCEPT !.e2 = <<Entry("sick", 4, 1), Entry(ANNUAL_LEAVE, 6, 3)>>]
Leave3 == [Leave1 EXCEPT !.e2 = <<Entry("sick", 4, 1)>>]

InitStores ==
    {<<[e1 |-> Employee("A", 0), e2 |-> Employee("A", 0)], Leave1>>,
     <<[e1 |-> Employee("A", 1), e2 |-> Employee("A", 0)], Leave2>>,
     <<[e1 |-> Employee("A", 0), e2 |-> Employee("A", 2)], Leave3>>,
     <<[e1 |-> Employee("A", 1), e2 |-> Employee("A", 2)], Leave1>>,
     <<[e1 |-> Employee("A", 0), e2 |-> Employee("X", 2)], Leave2>>}

NoRequest == [role |-> {}, hrms_ids |-> <<>>, gfi |-> NoPatch, lfi |-> NoLeave]

Init ==
    /\ \E st \in InitStores : emp = st[1] /\ leave = st[2]
    /\ hist = {}
    /\ calls = 0
    /\ req = NoRequest
    /\ pre = emp
    /\ preLeave = leave
    /\ log = <<>>
    /\ outcome = "none"
    /\ errIds = <<>>

\* One request, served from start to end.  Every behaviour serves one request,
\* from one of the stores of Init: the handler keeps nothing between requests
\* but the store.
Serve(user_role, hrms_ids, gfi, lfi) ==
    LET r == mutate(emp, leave, hist, user_role, hrms_ids, gfi, lfi)
    IN  /\ emp' = r.emp
        /\ leave' = r.leave
        /\ hist' = r.hist
        /\ log' = r.log
        /\ outcome' = r.outcome
        /\ errIds' = r.errs
        /\ req' = [role |-> user_role, hrms_ids |-> hrms_ids, gfi |-> gfi, lfi |-> lfi]
        /\ pre' = emp
        /\ preLeave' = leave
        /\ calls' = calls + 1

\* A request with a general_field_input only
MutateGeneral ==
    /\ calls = 0
    /\ \E user_role \in RoleSets, hrms_ids \in IdLists, gfi \in Patches \ {NoPatch} :
          Serve(user_role, hrms_ids, gfi, NoLeave)

\* A request with a leave_field_input only
MutateLeave ==
    /\ calls = 0
    /\ \E user_role \in RoleSets, hrms_ids \in IdLists, lfi \in LeaveInputs :
          Serve(user_role, hrms_ids, NoPatch, lfi)

\* A request with both inputs
BothPatches ==
    {[business_group |-> "B1"], [direct_manager |-> "m1"], [saral |-> "X"],
     [employee_type |-> "T1"]}

MutateBoth ==
    /\ calls = 0
    /\ \E user_role \in RoleSets, hrms_ids \in IdLists, gfi \in BothPatches,
          lfi \in LeaveInputs :
          Serve(user_role, hrms_ids, gfi, lfi)

Next == MutateGeneral \/ MutateLeave \/ MutateBoth

Spec == Init /\ [][Next]_vars

----------------------------------------------------------------------------
(* Sequences of requests: up to MaxCalls requests of an Admin, one after    *)
(* the other, each served from the store the one before left.              *)

SeqIdLists == {<<"e1">>, <<"e1", "e2">>}

\* Patches that move the targets to company X or back to company A
SeqPatches == {[saral |-> "X"], [saral |-> "A"], [saral |-> "X", shift_type |-> "S1"]}

SeqLeaveInputs ==
    [given : {TRUE}, operation : LeaveOperations, value : {Num(3), Num(10)}]

\* Two employees of company A without a generated code; e2's annual-leave
\* entry is the second entry of its leave document
SeqEmp0 == [e1 |-> Employee("A", 0), e2 |-> Employee("A", 0)]
SeqLeave0 == Leave2

InitSeq ==
    /\ emp = SeqEmp0
    /\ leave = SeqLeave0
    /\ hist = {}
    /\ calls = 0
    /\ req = NoRequest
    /\ pre = emp
    /\ preLeave = leave
    /\ log = <<>>
    /\ outcome = "none"
    /\ errIds = <<>>

\* A request with a leave_field_input, after the requests before it
LeaveCall ==
    /\ calls < MaxCalls
    /\ \E hrms_ids \in SeqIdLists, lfi \in SeqLeaveInputs :
          Serve({"Admin"}, hrms_ids, NoPatch, lfi)

\* A request with a general_field_input, after the requests before it
GeneralCall ==
    /\ calls < MaxCalls
    /\ \E hrms_ids \in SeqIdLists, gfi \in SeqPatches :
          Serve({"Admin"}, hrms_ids, gfi, NoLeave)

NextSeq == LeaveCall \/ GeneralCall

SpecSeq == InitSeq /\ [][NextSeq]_vars

----------------------------------------------------------------------------
(* Vocabulary of the properties                                            *)

Served == calls > 0
IsAdmin == "Admin" \in req.role
IsPmoOnly == "PMO" \in req.role /\ "Admin" \notin req.role

\* The target documents: the ids of the request that have a document
Targets == Matched(req.hrms_ids)
HasMissingId == \E n \in 1..Len(req.hrms_ids) : req.hrms_ids[n] \notin EmpIds \cup {""}

\* Positions of the log that hold a call of the given kind
LogAt(op, tag) == {n \in 1..Len(log) : log[n].op = op /\ log[n].tag = tag}
Notified(tag) == LogAt("notify", tag) # {}

\* The snapshots of the target documents as they were before the request
IsSnapshotOfTargets(payload) ==
    /\ {payload[n].hrms_id : n \in 1..Len(payload)} = Targets
    /\ \A n \in 1..Len(payload) : payload[n] = emp_details(pre, payload[n].hrms_id)

\* The company step ran: the log holds its fetch of the highest code
CompanyStepRan == \E n \in 1..Len(log) : log[n].op = "fetch_high"
FetchedHigh == log[CHOOSE n \in 1..Len(log) : log[n].op = "fetch_high"].val

\* Targets of the company step by what they were before the request
Eligible == {i \in Targets : pre[i].saral # req.gfi["saral"] /\ pre[i].cds_code = 0}
Conflicting == {i \in Targets : pre[i].saral # req.gfi["saral"] /\ pre[i].cds_code # 0}

----------------------------------------------------------------------------
(* C1 .. C10                                                               *)

\* C1: for a request whose general_field_input is a valid non-empty
\* direct_manager and nothing else, made by Admin or by PMO without Admin with
\* a list that names a stored employee, every target document ends with the
\* new manager reference and exactly one direct-manager notification was
\* enqueued, carrying the pre-change snapshots of all targets.
C1_DirectManagerOnly ==
    (/\ Served
     /\ IsAdmin \/ IsPmoOnly
     /\ ~req.lfi.given
     /\ Targets # {}
     /\ DOMAIN req.gfi = {"direct_manager"}
     /\ ValidOid(req.gfi["direct_manager"]))
    => /\ \A i \in Targets : emp[i].direct_manager = ObjectId(req.gfi["direct_manager"])
       /\ Cardinality(LogAt("notify", "direct_manager")) = 1
       /\ \A n \in LogAt("notify", "direct_manager") : IsSnapshotOfTargets(log[n].tgt)

\* Log positions of a grade/designation set-update whose count differs from
\* the length of hrms_ids
C2_MismatchPositions ==
    {n \in LogAt("update", "grade_designation") :
        Cardinality(log[n].tgt) # Len(req.hrms_ids)}

\* C2: when the set-update of grade and designation reports a count other
\* than the length of hrms_ids, the request ends ok=false, neither the
\* designation nor the grade notification is enqueued, and nothing follows
\* the set-update: no further store call, no further notification, and
\* shift, business group, manager, company, code and leave are as before.
C2_CountMismatchAborts ==
    (Served /\ C2_MismatchPositions # {})
    => /\ outcome = "ok_false"
       /\ ~Notified("designation") /\ ~Notified("grade")
       /\ \A n \in C2_MismatchPositions : n = Len(log)
       /\ ~Notified("shift_type") /\ ~Notified("business_group")
       /\ ~Notified("direct_manager")
       /\ \A i \in EmpIds :
            /\ emp[i].shift_type = pre[i].shift_type
            /\ emp[i].business_group = pre[i].business_group
            /\ emp[i].direct_manager = pre[i].direct_manager
            /\ emp[i].saral = pre[i].saral
            /\ emp[i].cds_code = pre[i].cds_code
            /\ emp[i].employee_type = pre[i].employee_type
       /\ leave = preLeave

\* C2 witness: an Admin request with a valid pair and more keys, whose
\* set-update matched fewer documents than hrms_ids is long
C2_Witness ==
    /\ Served /\ IsAdmin
    /\ C2_MismatchPositions # {}
    /\ "shift_type" \in DOMAIN req.gfi
    /\ Targets # {}
    /\ outcome = "ok_false"

\* The patch holds a designation/grade pair that the catalogue does not allow
C3_InvalidPair ==
    /\ "grade" \in DOMAIN req.gfi /\ "designation" \in DOMAIN req.gfi
    /\ ~GradeExist(req.gfi)

\* C3: an Admin request whose designation/grade pair is not valid inserts no
\* history record, changes no designation or grade, enqueues no designation
\* or grade notification, surfaces no error, and still applies the other
\* sub-updates of the patch to the targets.
C3_InvalidPairSkippedOthersApplied ==
    (/\ Served /\ IsAdmin /\ ~req.lfi.given
     /\ Targets # {}
     /\ C3_InvalidPair
     /\ "direct_manager" \in DOMAIN req.gfi => ValidOid(req.gfi["direct_manager"]))
    => /\ hist = {}
       /\ \A i \in EmpIds : emp[i].designation = pre[i].designation
                            /\ emp[i].grade = pre[i].grade
       /\ ~Notified("designation") /\ ~Notified("grade")
       /\ outcome # "ok_false"
       /\ \A i \in Targets :
            /\ "shift_type" \in DOMAIN req.gfi => emp[i].shift_type = req.gfi["shift_type"]
            /\ "business_group" \in DOMAIN req.gfi
                  => emp[i].business_group = req.gfi["business_group"]
            /\ "employee_type" \in DOMAIN req.gfi
                  => emp[i].employee_type = req.gfi["employee_type"]
            /\ "direct_manager" \in DOMAIN req.gfi
                  => emp[i].direct_manager = ObjectId(req.gfi["direct_manager"])

\* C4: a request by PMO without Admin changes no designation, grade,
\* employment type, shift, company or generated code, whatever the patch;
\* its store calls and notifications are those of direct_manager and
\* business_group only.
C4_PmoOnlyManagerAndGroup ==
    (Served /\ IsPmoOnly)
    => /\ \A i \in EmpIds :
            /\ emp[i].designation = pre[i].designation
            /\ emp[i].grade = pre[i].grade
            /\ emp[i].employee_type = pre[i].employee_type
            /\ emp[i].shift_type = pre[i].shift_type
            /\ emp[i].saral = pre[i].saral
            /\ emp[i].cds_code = pre[i].cds_code
       /\ hist = {}
       /\ \A n \in 1..Len(log) :
            log[n].op \in {"notify", "update"}
               => log[n].tag \in {"direct_manager", "business_group"}
       /\ \A n \in 1..Len(log) : log[n].op \notin {"update_one", "insert_history"}

\* C4 witness: PMO without Admin sends a valid designation/grade pair with a
\* business group; the business group is changed and the call succeeds
C4_Witness ==
    /\ Served /\ IsPmoOnly
    /\ "designation" \in DOMAIN req.gfi /\ "grade" \in DOMAIN req.gfi
    /\ GradeExist(req.gfi)
    /\ Targets # {}
    /\ \A i \in Targets : emp[i].business_group = "B1" /\ pre[i].business_group # "B1"
    /\ outcome = "ok_true"

\* C5: when the company step runs, every target whose company differed and
\* whose code was empty ends in the new company with a code above the
\* high-water mark fetched at the start of the step; the codes assigned in
\* the call are the successive successors of that mark, so no two agree.
C5_GeneratedCodesDistinctAboveMark ==
    (Served /\ CompanyStepRan)
    => /\ \A i \in Eligible : /\ emp[i].saral = req.gfi["saral"]
                              /\ emp[i].cds_code > FetchedHigh
       /\ \A i, j \in Eligible : i # j => emp[i].cds_code # emp[j].cds_code
       /\ {emp[i].cds_code : i \in Eligible}
             = (FetchedHigh + 1)..(FetchedHigh + Cardinality(Eligible))
       /\ \A n \in LogAt("update_one", "company") :
             n > 1 /\ log[n - 1].op = "update_one"
                => log[n].val.cds_code = log[n - 1].val.cds_code + 1

\* C5 witness: two targets received a code in one call
C5_Witness ==
    /\ Served /\ CompanyStepRan
    /\ Cardinality(Eligible) = 2
    /\ \A i \in Eligible : emp[i].cds_code # 0 /\ pre[i].cds_code = 0

\* C6: in the company step a target whose company differs but which holds a
\* code is recorded as failed and keeps company and code, and every eligible
\* target of the call still gets the new company and a code.
C6_FailedRecordedOthersProcessed ==
    (Served /\ CompanyStepRan)
    => /\ \A i \in Conflicting :
            /\ \E n \in 1..Len(errIds) : errIds[n] = i
            /\ emp[i].saral = pre[i].saral
            /\ emp[i].cds_code = pre[i].cds_code
       /\ \A i \in Eligible :
            /\ emp[i].saral = req.gfi["saral"]
            /\ emp[i].cds_code # 0
            /\ \A n \in 1..Len(errIds) : errIds[n] # i

\* C6 witness: the first employee of the query failed and a later one was
\* eligible and got the company and a code
C6_Witness ==
    /\ Served /\ CompanyStepRan
    /\ "e1" \in Conflicting /\ "e2" \in Eligible
    /\ emp["e2"].saral = "X" /\ emp["e2"].cds_code # 0
    /\ emp["e1"] = pre["e1"]

\* Keys of the patch that only the generic set-update persists
C7_GenericKeys == (DOMAIN req.gfi) \cap {"employee_type", "shift_type", "business_group"}

\* C7: CompanySwitched is the outcome exactly when the company step ran and
\* some target failed in it; it carries exactly the failed ids; it reaches
\* the caller as the exception, after the generic set-update was applied to
\* all targets, and what the call persisted stays persisted.
C7_CompanySwitchedIffFailed ==
    Served
    => /\ (outcome = "CompanySwitched") <=> (CompanyStepRan /\ Conflicting # {})
       /\ outcome # "CompanySwitched" => errIds = <<>>
       /\ outcome = "CompanySwitched"
            => /\ errIds = SelectSeq(StoreOrder, LAMBDA i : i \in Conflicting)
               /\ C7_GenericKeys # {}
                    => /\ LogAt("update", "generic") = {Len(log)}
                       /\ \A i \in Targets, k \in C7_GenericKeys : emp[i][k] = req.gfi[k]
               /\ \A i \in Eligible : emp[i].saral = req.gfi["saral"] /\ emp[i].cds_code # 0
               /\ HasTruthy(req.gfi, "direct_manager")
                    => \A i \in Targets :
                          emp[i].direct_manager = ObjectId(req.gfi["direct_manager"])

\* C7 witness: the exception is raised after a generic field and the company
\* of another target were persisted
C7_Witness ==
    /\ Served /\ outcome = "CompanySwitched"
    /\ "shift_type" \in DOMAIN req.gfi
    /\ Eligible # {}
    /\ \A i \in Targets : emp[i].shift_type = "S1"
    /\ Len(errIds) = 1

\* C8: a request by an actor with neither Admin nor PMO does not report
\* ok=true, changes no employee or leave document and enqueues nothing.
C8_OtherRolesRejected ==
    (Served /\ ~IsAdmin /\ ~IsPmoOnly /\ Targets # {} /\ ~req.lfi.given)
    => /\ outcome # "ok_true"
       /\ emp = pre /\ leave = preLeave /\ hist = {}
       /\ log = <<>>

\* C9: an id with no document is skipped by the snapshot loop: a request of
\* Admin or PMO with a business_group patch and such an id is not an error,
\* and the patch reaches the targets that have a document, with a snapshot
\* for each of them.
C9_MissingIdsSkipped ==
    (/\ Served /\ (IsAdmin \/ IsPmoOnly) /\ ~req.lfi.given
     /\ HasMissingId /\ Targets # {}
     /\ DOMAIN req.gfi \subseteq {"business_group", "employee_type"}
     /\ HasTruthy(req.gfi, "business_group"))
    => /\ outcome = "ok_true"
       /\ \A i \in Targets : emp[i].business_group = req.gfi["business_group"]
       /\ Notified("business_group")
       /\ \A n \in LogAt("notify", "employee_type") : IsSnapshotOfTargets(log[n].tgt)

\* The request reached the leave update with the given operation
LeaveApplied(operation) ==
    /\ Served /\ outcome = "ok_true"
    /\ req.lfi.given /\ req.lfi.operation = operation
    /\ IsAdmin \/ IsPmoOnly

\* C10: REPLACE_ALL_WITH with amount a sets the balance of every selected
\* leave document to a + taken and appends one history entry with credit
\* a - balance + taken, from the values the document held before, with one
\* store call per document.
C10_ReplaceAllWith ==
    LeaveApplied("REPLACE_ALL_WITH")
    => LET a == req.lfi.value.n
           tgt == LeaveMatched(preLeave, req.hrms_ids)
       IN  /\ \A i \in tgt :
                LET b == preLeave[i][1].leave_balance
                    t == preLeave[i][1].leave_taken
                IN  /\ leave[i][1].leave_balance = a + t
                    /\ leave[i][1].history
                          = Append(preLeave[i][1].history, [credit |-> a - b + t])
                    /\ \A k \in 2..Len(leave[i]) :
                          leave[i][k].history = preLeave[i][k].history
                    /\ Cardinality({n \in LogAt("leave_update_one", "REPLACE_ALL_WITH") :
                                       log[n].tgt = {i}}) = 1
           /\ Cardinality(LogAt("leave_update_one", "REPLACE_ALL_WITH")) = Cardinality(tgt)
           /\ \A n \in 1..Len(log) : log[n].op # "leave_update"

\* C10 witness: amount 10 on a document with balance 5 and taken 2 gives
\* balance 12 and credit 7, in a call over two documents
C10_Witness ==
    /\ LeaveApplied("REPLACE_ALL_WITH")
    /\ req.lfi.value.n = 10
    /\ Cardinality(LeaveMatched(preLeave, req.hrms_ids)) = 2
    /\ preLeave["e1"][1].leave_balance = 5 /\ preLeave["e1"][1].leave_taken = 2
    /\ leave["e1"][1].leave_balance = 12
    /\ leave["e1"][1].history = <<[credit |-> 7]>>

----------------------------------------------------------------------------
(* C11 .. C20                                                              *)

\* The entry of a leave document that the positional operator selects
AnnualEntry(lv, i) == lv[i][Positional(lv[i])]

\* What C11 says of one of the two incrementing operations: sign is 1 for
\* ADD_TO_EXISTING and -1 for REMOVE_FROM_EXISTING
C11_Incremented(operation, sign) ==
    LeaveApplied(operation)
    => LET a == req.lfi.value.n
           tgt == LeaveMatched(preLeave, req.hrms_ids)
       IN  /\ \A i \in tgt :
                /\ AnnualEntry(leave, i).leave_balance
                      = AnnualEntry(preLeave, i).leave_balance + sign * a
                /\ AnnualEntry(leave, i).history
                      = Append(AnnualEntry(preLeave, i).history, [credit |-> sign * a])
           /\ Cardinality(LogAt("leave_update", operation)) = 1
           /\ \A n \in LogAt("leave_update", operation) : log[n].tgt = tgt
           /\ \A n \in 1..Len(log) : log[n].op # "leave_update_one"

\* C11: ADD_TO_EXISTING with amount a adds a to the annual-leave balance of
\* every selected leave document and appends one history entry with credit a
\* to it; REMOVE_FROM_EXISTING subtracts a and appends one entry with credit
\* -a; each is one store call over all selected documents, never one call
\* per document.
C11_AddAndRemove ==
    /\ C11_Incremented("ADD_TO_EXISTING", 1)
    /\ C11_Incremented("REMOVE_FROM_EXISTING", -1)

\* C11 witness: ADD_TO_EXISTING with amount 3 over two documents that hold
\* one annual-leave entry each: both balances rose by 3 in one store call
C11_Witness ==
    /\ LeaveApplied("ADD_TO_EXISTING")
    /\ req.lfi.value.n = 3
    /\ LeaveMatched(preLeave, req.hrms_ids) = {"e1", "e2"}
    /\ Len(preLeave["e2"]) = 1
    /\ leave["e1"][1].leave_balance = preLeave["e1"][1].leave_balance + 3
    /\ leave["e2"][1].leave_balance = preLeave["e2"][1].leave_balance + 3
    /\ leave["e1"][1].history = <<[credit |-> 3]>>
    /\ leave["e2"][1].history = <<[credit |-> 3]>>
    /\ Len(log) = 1

\* The leave input of the request cannot be used: its amount is no number,
\* or its operation is missing
C12_InvalidLeaveInput ==
    /\ req.lfi.given
    /\ req.lfi.value.t # "num" \/ req.lfi.operation = ""

\* C12: a request with an empty hrms_ids list, or with a leave input whose
\* amount is no number or whose operation is missing, ends ok=false without
\* raising and changes nothing: no employee document, no leave document, no
\* history record, nothing enqueued, whatever general_field_input it carries.
C12_InvalidInputIsSoftNoOp ==
    (Served /\ (req.hrms_ids = <<>> \/ C12_InvalidLeaveInput))
    => /\ outcome = "ok_false"
       /\ emp = pre /\ leave = preLeave /\ hist = {}
       /\ log = <<>>

\* C13: a request leaves every field the patch does not name as it was: in
\* every target document each field outside the patch keeps its value, the
\* generated code being the one exception and only when the patch names
\* saral; a document that is no target is not changed at all.
C13_UnnamedFieldsUntouched ==
    Served
    => \A i \in EmpIds :
          /\ i \notin Targets => emp[i] = pre[i]
          /\ \A f \in DOMAIN emp[i] :
                (/\ f \notin DOMAIN req.gfi
                 /\ ~(f = "cds_code" /\ "saral" \in DOMAIN req.gfi))
                => emp[i][f] = pre[i][f]

\* C13 witness: an Admin request with three keys, one of them saral, changed
\* one of two documents: the target got the three fields and a code and kept
\* the rest, the other document is as before
C13_Witness ==
    /\ Served /\ IsAdmin /\ outcome = "ok_true"
    /\ DOMAIN req.gfi = {"saral", "shift_type", "direct_manager"}
    /\ Targets = {"e1"}
    /\ emp["e1"].saral = "X" /\ pre["e1"].saral = "A"
    /\ emp["e1"].cds_code # pre["e1"].cds_code
    /\ emp["e1"].shift_type = "S1"
    /\ emp["e1"].direct_manager = ObjectId("m1")
    /\ emp["e1"].business_group = pre["e1"].business_group
    /\ emp["e2"] = pre["e2"]

\* The patch holds a designation/grade pair that the catalogue allows
C14_ValidPair ==
    /\ "grade" \in DOMAIN req.gfi /\ "designation" \in DOMAIN req.gfi
    /\ GradeExist(req.gfi)

\* The call ran to its end: it answered ok=true or raised CompanySwitched
Completed == outcome \in {"ok_true", "CompanySwitched"}

\* C14: for an Admin request with a valid designation/grade pair the history
\* records are inserted right before the set-update of {grade, designation}
\* and hold the designation and grade the targets had before the request;
\* the designation and grade notifications come after that set-update and
\* only when its count equals the length of hrms_ids; none of the four
\* happens twice, and a call that runs to its end has exactly one of each;
\* the generic set-update comes last and writes neither grade nor designation.
C14_HistoryThenUpdateThenNotify ==
    (Served /\ IsAdmin /\ C14_ValidPair)
    => LET H == LogAt("insert_history", "designation_grade")
           U == LogAt("update", "grade_designation")
           N == LogAt("notify", "designation") \cup LogAt("notify", "grade")
       IN  /\ Cardinality(H) <= 1 /\ Cardinality(U) <= 1
           /\ Cardinality(LogAt("notify", "designation")) <= 1
           /\ Cardinality(LogAt("notify", "grade")) <= 1
           /\ \A r \in hist :
                /\ r.old_designation = pre[r.hrms_id].designation
                /\ r.old_grade = pre[r.hrms_id].grade
                /\ r.designation = req.gfi["designation"]
                /\ r.grade = req.gfi["grade"]
           /\ \A u \in U :
                /\ (u - 1) \in H
                /\ log[u - 1].val = hist
                /\ log[u].val = [grade |-> req.gfi["grade"],
                                 designation |-> req.gfi["designation"]]
           /\ H # {} => U # {}
           /\ \A n \in N : \E u \in U : /\ u < n
                                        /\ Cardinality(log[u].tgt) = Len(req.hrms_ids)
           /\ \A m \in LogAt("update", "generic") :
                /\ "grade" \notin DOMAIN log[m].val
                /\ "designation" \notin DOMAIN log[m].val
                /\ \A n \in H \cup U \cup N : n < m
           /\ Completed
                => /\ Cardinality(H) = 1 /\ Cardinality(U) = 1
                   /\ Cardinality(LogAt("notify", "designation")) = 1
                   /\ Cardinality(LogAt("notify", "grade")) = 1
                   /\ {r.hrms_id : r \in hist} = Targets
                   /\ \A i \in Targets : /\ emp[i].designation = req.gfi["designation"]
                                         /\ emp[i].grade = req.gfi["grade"]

\* C14 witness: an Admin request with a valid pair and a shift over two
\* documents succeeded: two history records, then the set-update, the two
\* notifications, and the generic set-update of the shift alone
C14_Witness ==
    /\ Served /\ IsAdmin /\ C14_ValidPair
    /\ outcome = "ok_true"
    /\ DOMAIN req.gfi = {"grade", "designation", "shift_type"}
    /\ Targets = {"e1", "e2"}
    /\ Cardinality(hist) = 2
    /\ \A r \in hist : r.old_designation = "D0" /\ r.designation = "D1"
    /\ LogAt("insert_history", "designation_grade") = {1}
    /\ LogAt("update", "grade_designation") = {2}
    /\ LogAt("update", "generic") = {Len(log)}
    /\ log[Len(log)].val = [shift_type |-> "S1"]

\* What is left of the patch when the generic set-update is reached
C15_RemainingPatch == Pop(Pop(Pop(Pop(req.gfi, "grade"), "designation"),
                              "direct_manager"), "saral")

\* C15: for a patch with a non-empty business_group, PMO without Admin
\* persists the value by a set-update of its own, issued right before the
\* notification, and issues no generic set-update; Admin enqueues the
\* notification first and persists the value only by the final generic
\* set-update, the last call on the employee store, which carries the rest
\* of the patch with it; a call of either
\* that runs to its end leaves every target with the new business group and
\* has enqueued exactly one business-group notification.
C15_BusinessGroupByRole ==
    (Served /\ HasTruthy(req.gfi, "business_group"))
    => LET v == req.gfi["business_group"]
           N == LogAt("notify", "business_group")
           G == LogAt("update", "generic")
           B == LogAt("update", "business_group")
       IN  /\ IsPmoOnly
                => /\ G = {}
                   /\ \A n \in N : /\ (n - 1) \in B
                                   /\ log[n - 1].val = [business_group |-> v]
                                   /\ log[n - 1].tgt = Targets
                   /\ \A b \in B : (b + 1) \in N
           /\ IsAdmin
                => /\ B = {}
                   /\ \A n \in N, m \in G : n < m
                   /\ \A m \in G : /\ \A k \in (m + 1)..Len(log) :
                                         log[k].op \in {"leave_update", "leave_update_one"}
                                   /\ log[m].val = C15_RemainingPatch
                                   /\ log[m].val["business_group"] = v
                   /\ G = {} => \A i \in EmpIds :
                                   emp[i].business_group = pre[i].business_group
           /\ (Completed /\ (IsAdmin \/ IsPmoOnly))
                => /\ \A i \in Targets : emp[i].business_group = v
                   /\ Cardinality(N) = 1
                   /\ \A n \in N : log[n].val = v /\ log[n].tgt = req.hrms_ids
                   /\ IsAdmin => Cardinality(G) = 1

\* C15 witness: an Admin request with business_group and shift_type over two
\* documents: the notification precedes the one generic set-update that
\* carries both fields
C15_Witness ==
    /\ Served /\ IsAdmin /\ outcome = "ok_true"
    /\ DOMAIN req.gfi = {"business_group", "shift_type"}
    /\ req.gfi["business_group"] = "B1"
    /\ Targets = {"e1", "e2"}
    /\ \E n \in LogAt("notify", "business_group") : n < Len(log)
    /\ log[Len(log)] = Ev("update", "generic",
                          [business_group |-> "B1", shift_type |-> "S1"], {"e1", "e2"})
    /\ \A i \in Targets : emp[i].business_group = "B1" /\ pre[i].business_group = "B0"

\* The value a notification of the given field announces is the value the
\* target documents hold in that field
C16_Persisted(tag) ==
    \A n \in LogAt("notify", tag), i \in Targets :
        emp[i][tag] = IF tag = "direct_manager" THEN ObjectId(req.gfi[tag])
                      ELSE req.gfi[tag]

\* C16: when a call has ended, every notification it enqueued for a field
\* (employee type, shift, business group, direct manager, designation,
\* grade) is matched by the new value of that field in every target document.
C16_NotifiedOnlyIfPersisted ==
    Served
    => \A tag \in {"employee_type", "shift_type", "business_group",
                   "direct_manager", "designation", "grade"} : C16_Persisted(tag)

\* Sum of the credits of a history
RECURSIVE SumCredits(_)
SumCredits(history) ==
    IF history = <<>> THEN 0
    ELSE history[1].credit + SumCredits(Tail(history))

\* C17: after any sequence of leave operations, in any order and with any
\* amounts, the balance of every entry of every leave document is its
\* initial balance plus the sum of the credits of the history entries it
\* has received since; and each operation that was applied changed exactly
\* one entry of each selected document, by appending one history entry and
\* moving the balance by that entry's credit.
C17_BalanceIsInitialPlusCredits ==
    /\ \A i \in EmpIds : \A k \in 1..Len(leave[i]) :
          /\ Len(leave[i]) = Len(SeqLeave0[i])
          /\ leave[i][k].leave_balance
                = SeqLeave0[i][k].leave_balance + SumCredits(leave[i][k].history)
    /\ Served
         => \A i \in EmpIds :
               /\ \A k \in 1..Len(leave[i]) :
                     \/ leave[i][k] = preLeave[i][k]
                     \/ /\ Len(leave[i][k].history) = Len(preLeave[i][k].history) + 1
                        /\ SubSeq(leave[i][k].history, 1, Len(preLeave[i][k].history))
                              = preLeave[i][k].history
                        /\ leave[i][k].leave_balance
                              = preLeave[i][k].leave_balance
                                + leave[i][k].history[Len(leave[i][k].history)].credit
               /\ (req.lfi.given /\ i \in LeaveMatched(preLeave, req.hrms_ids))
                     => Cardinality({k \in 1..Len(leave[i]) :
                                        leave[i][k] # preLeave[i][k]}) = 1

\* C17 witness: ADD_TO_EXISTING 3, REMOVE_FROM_EXISTING 10 and
\* REPLACE_ALL_WITH 10 in a row on a document with balance 5 and taken 2:
\* credits 3, -10 and 14, balance 12
C17_Witness ==
    /\ calls = 3
    /\ req.lfi.operation = "REPLACE_ALL_WITH"
    /\ leave["e1"][1].history = <<[credit |-> 3], [credit |-> -10], [credit |-> 14]>>
    /\ leave["e1"][1].leave_balance = 12
    /\ SeqLeave0["e1"][1].leave_balance = 5

C19_LoneKey == ("grade" \in DOMAIN req.gfi) # ("designation" \in DOMAIN req.gfi)

\* C19: an Admin request whose patch names exactly one of designation and
\* grade changes no designation and no grade, inserts no history record and
\* enqueues no designation or grade notification; the generic set-update
\* carries neither key; and the call reports success (the rest of the patch
\* being fit to succeed: a valid manager, no company conflict).
C19_LoneKeyDroppedCallSucceeds ==
    (/\ Served /\ IsAdmin /\ ~req.lfi.given
     /\ req.hrms_ids # <<>>
     /\ C19_LoneKey
     /\ HasTruthy(req.gfi, "direct_manager") => ValidOid(req.gfi["direct_manager"])
     /\ "saral" \in DOMAIN req.gfi => Conflicting = {})
    => /\ \A i \in EmpIds : /\ emp[i].designation = pre[i].designation
                            /\ emp[i].grade = pre[i].grade
       /\ hist = {}
       /\ ~Notified("designation") /\ ~Notified("grade")
       /\ LogAt("update", "grade_designation") = {}
       /\ \A m \in LogAt("update", "generic") :
             "grade" \notin DOMAIN log[m].val /\ "designation" \notin DOMAIN log[m].val
       /\ outcome = "ok_true"

\* C20: every leave operation changes only annual-leave entries: in a
\* selected leave document every entry of another leave type keeps balance
\* and history, wherever the annual-leave entry sits; a document that has no
\* annual-leave entry, or whose id is not in hrms_ids, is unchanged.
C20_OnlyAnnualEntryChanges ==
    Served
    => \A i \in EmpIds :
          IF i \in LeaveMatched(preLeave, req.hrms_ids)
          THEN /\ Len(leave[i]) = Len(preLeave[i])
               /\ \A k \in 1..Len(preLeave[i]) :
                     preLeave[i][k].leave_type # ANNUAL_LEAVE
                        => leave[i][k] = preLeave[i][k]
          ELSE leave[i] = preLeave[i]

====
